---- MODULE Spec2Model ----
(***************************************************************************)
(* Model of mlir/Tools/mlir-opt/MlirOptMain.h: the MlirOptMainConfig       *)
(* option object (fields, fluent setters, getters, setupPassPipeline),     *)
(* asMainReturnCode, and the MlirOptMain driver that consumes a config.    *)
(* The header only declares MlirOptMain and setPassPipelineParser; those   *)
(* two are modelled from the design document.                              *)
(***************************************************************************)
EXTENDS Naturals, Sequences, FiniteSets

VARIABLES
  cfg,        \* the MlirOptMainConfig object: one field per protected member
  called,     \* history: the setters that have been called
  lastArg,    \* history: per option, the argument of the latest setter call
  lastCall,   \* history: the latest operation and what it returned
  pc,         \* "config" | "running" | "done" | "fatal"
  numChunks,  \* number of chunks the input was split into
  results,    \* per-chunk ExecutionResult, in chunk order
  hadFailure, \* the driver's running aggregate
  ret,        \* result returned by MlirOptMain, "none" while not returned
  exitCode,   \* the process exit code once main has returned, else nullopt
  listed,     \* pass stage names were printed
  dialectsShown, \* dialect names were printed
  parsed,     \* number of chunks handed to the parser
  stagesRun   \* number of pass stages executed

vars == <<cfg, called, lastArg, lastCall, pc, numChunks, results, hadFailure,
          ret, exitCode, listed, dialectsShown, parsed, stagesRun>>

driverVars == <<pc, numChunks, results, hadFailure, ret, exitCode, listed,
                dialectsShown, parsed, stagesRun>>

----------------------------------------------------------------------------
(* Bounds *)

\* at most this many distinct setters are called on one config
MaxOptionsSet == 2
\* at most this many chunks in one input buffer
MaxChunks == 2

----------------------------------------------------------------------------
(* Value domains *)

\* <cstdlib>
EXIT_SUCCESS == 0
EXIT_FAILURE == 1

\* LogicalResult
success == "success"
failure == "failure"
LogicalResult == {success, failure}
succeeded(r) == r = success
failed(r) == r = failure

VerbosityLevel == {"ErrorsOnly", "ErrorsAndWarnings", "ErrorsWarningsAndRemarks"}

\* SourceMgrDiagnosticVerifierHandler::Level; the header names only None,
\* the design document names the other two levels loose and strict.
Level == {"None", "Loose", "Strict"}

\* default argument of splitInputFile / outputSplitMarker (defined elsewhere)
kDefaultSplitMarker == "kDefaultSplitMarker"
Markers == {"", kDefaultSplitMarker}
Files == {"", "dialects.irdl"}
Versions == {0, 1}
\* tracing::DebugConfig values; "dbg0" is the default-constructed one
DebugConfigs == {"dbg0", "dbg1"}

\* std::optional<int64_t>: a sequence of length at most one
nullopt == <<>>
Some(v) == <<v>>

\* An empty std::function<LogicalResult(PassManager &)>
NoCallback == [kind |-> "none", id |-> "", passes |-> <<>>, result |-> success]

\* Callbacks a client may install: what they append to the pass manager and
\* what they return.
PassPipelineFns ==
  { [kind |-> "fn", id |-> "f1", passes |-> <<"canonicalize">>, result |-> success],
    [kind |-> "fn", id |-> "f2", passes |-> <<"cse">>, result |-> failure] }

\* PassPipelineCLParser objects: the textual pipeline they hold and whether
\* adding it to a pass manager works.
PassPipelineCLParsers ==
  { [name |-> "p1", pipeline |-> <<"inline">>, ok |-> TRUE],
    [name |-> "p2", pipeline |-> <<>>, ok |-> FALSE] }

\* pass managers handed to setupPassPipeline by a client
PassManagers == { <<>>, <<"builtin">> }

----------------------------------------------------------------------------
(* MlirOptMainConfig: default member initialisers *)

\* Variant: the parse-time verifier switch defaults to disabled, the same
\* polarity as the notes switch.
MlirOptMainConfig_inverted ==
  [ allowUnregisteredDialectsFlag |-> FALSE,
    debugConfig |-> "dbg0",
    diagnosticVerbosityLevelFlag |-> "ErrorsWarningsAndRemarks",
    dumpPassPipelineFlag |-> FALSE,
    emitBytecodeFlag |-> FALSE,
    elideResourceDataFromBytecodeFlag |-> FALSE,
    irdlFileFlag |-> "",
    emitBytecodeVersion |-> nullopt,
    passPipelineCallback |-> NoCallback,
    listPassesFlag |-> FALSE,
    runReproducerFlag |-> FALSE,
    showDialectsFlag |-> FALSE,
    disableDiagnosticNotesFlag |-> TRUE,
    splitInputFileFlag |-> "",
    outputSplitMarkerFlag |-> "",
    useExplicitModuleFlag |-> FALSE,
    verifyDiagnosticsFlag |-> "None",
    verifyPassesFlag |-> TRUE,
    disableVerifierOnParsingFlag |-> TRUE,
    verifyRoundtripFlag |-> FALSE,
    generateReproducerFileFlag |-> "" ]

MlirOptMainConfig ==
  [ allowUnregisteredDialectsFlag |-> FALSE,
    debugConfig |-> "dbg0",
    diagnosticVerbosityLevelFlag |-> "ErrorsWarningsAndRemarks",
    dumpPassPipelineFlag |-> FALSE,
    emitBytecodeFlag |-> FALSE,
    elideResourceDataFromBytecodeFlag |-> FALSE,
    irdlFileFlag |-> "",
    emitBytecodeVersion |-> nullopt,
    passPipelineCallback |-> NoCallback,
    listPassesFlag |-> FALSE,
    runReproducerFlag |-> FALSE,
    showDialectsFlag |-> FALSE,
    disableDiagnosticNotesFlag |-> TRUE,
    splitInputFileFlag |-> "",
    outputSplitMarkerFlag |-> "",
    useExplicitModuleFlag |-> FALSE,
    verifyDiagnosticsFlag |-> "None",
    verifyPassesFlag |-> TRUE,
    disableVerifierOnParsingFlag |-> FALSE,
    verifyRoundtripFlag |-> FALSE,
    generateReproducerFileFlag |-> "" ]

----------------------------------------------------------------------------
(* Setters (each returns the updated object) and getters *)

allowUnregisteredDialects(c, allow) ==
  [c EXCEPT !.allowUnregisteredDialectsFlag = allow]
shouldAllowUnregisteredDialects(c) == c.allowUnregisteredDialectsFlag

setDebugConfig(c, config) == [c EXCEPT !.debugConfig = config]
getDebugConfig(c) == c.debugConfig

dumpPassPipeline(c, dump) == [c EXCEPT !.dumpPassPipelineFlag = dump]
getDiagnosticVerbosityLevel(c) == c.diagnosticVerbosityLevelFlag
shouldDumpPassPipeline(c) == c.dumpPassPipelineFlag

\* Variant: switching the output format also forgets the requested version.
emitBytecode_resetsVersion(c, emit) ==
  [c EXCEPT !.emitBytecodeFlag = emit, !.emitBytecodeVersion = nullopt]
emitBytecode(c, emit) == [c EXCEPT !.emitBytecodeFlag = emit]
shouldEmitBytecode(c) == c.emitBytecodeFlag

shouldElideResourceDataFromBytecode(c) == c.elideResourceDataFromBytecodeFlag

shouldShowNotes(c) == ~c.disableDiagnosticNotesFlag

setIrdlFile(c, file) == [c EXCEPT !.irdlFileFlag = file]
getIrdlFile(c) == c.irdlFileFlag

setEmitBytecodeVersion(c, version) ==
  [c EXCEPT !.emitBytecodeVersion = Some(version)]
bytecodeVersionToEmit(c) == c.emitBytecodeVersion

\* Variant: a callback does not displace a parser that is already installed.
setPassPipelineSetupFn_keepsParser(c, callback) ==
  IF c.passPipelineCallback.kind = "parser"
    THEN c
    ELSE [c EXCEPT !.passPipelineCallback = callback]
setPassPipelineSetupFn(c, callback) ==
  [c EXCEPT !.passPipelineCallback = callback]

\* The callback the parser setter installs: it adds the parser's pipeline to
\* the pass manager and fails when that does not work.
ParserCallback(parser) ==
  [kind |-> "parser", id |-> parser.name, passes |-> parser.pipeline,
   result |-> IF parser.ok THEN success ELSE failure]

setPassPipelineParser(c, parser) ==
  [c EXCEPT !.passPipelineCallback = ParserCallback(parser)]

\* std::function::operator bool and operator()
HasCallback(cb) == cb.kind # "none"
Invoke(cb, r) ==
  [result |-> cb.result, pm |-> r.pm \o cb.passes,
   invoked |-> Append(r.invoked, cb.id)]

\* Variant: the callback's result is dropped.
setupPassPipeline_dropsResult(c, pm) ==
  IF HasCallback(c.passPipelineCallback)
    THEN [Invoke(c.passPipelineCallback,
                 [result |-> success, pm |-> pm, invoked |-> <<>>])
            EXCEPT !.result = success]
    ELSE [result |-> success, pm |-> pm, invoked |-> <<>>]
setupPassPipeline(c, pm) ==
  IF HasCallback(c.passPipelineCallback)
    THEN Invoke(c.passPipelineCallback,
                [result |-> success, pm |-> pm, invoked |-> <<>>])
    ELSE [result |-> success, pm |-> pm, invoked |-> <<>>]

listPasses(c, list) == [c EXCEPT !.listPassesFlag = list]
shouldListPasses(c) == c.listPassesFlag

runReproducer(c, enableReproducer) ==
  [c EXCEPT !.runReproducerFlag = enableReproducer]
shouldRunReproducer(c) == c.runReproducerFlag

showDialects(c, show) == [c EXCEPT !.showDialectsFlag = show]
shouldShowDialects(c) == c.showDialectsFlag

splitInputFile(c, splitMarker) == [c EXCEPT !.splitInputFileFlag = splitMarker]
inputSplitMarker(c) == c.splitInputFileFlag

setOutputSplitMarker(c, splitMarker) ==
  [c EXCEPT !.outputSplitMarkerFlag = splitMarker]
outputSplitMarker(c) == c.outputSplitMarkerFlag

useExplicitModule(c, v) == [c EXCEPT !.useExplicitModuleFlag = v]
shouldUseExplicitModule(c) == c.useExplicitModuleFlag

verifyDiagnostics(c, verify) == [c EXCEPT !.verifyDiagnosticsFlag = verify]
\* Variant: only the strict level enables verification.
shouldVerifyDiagnostics_strictOnly(c) == c.verifyDiagnosticsFlag = "Strict"
shouldVerifyDiagnostics(c) == c.verifyDiagnosticsFlag # "None"
verifyDiagnosticsLevel(c) == c.verifyDiagnosticsFlag

verifyPasses(c, verify) == [c EXCEPT !.verifyPassesFlag = verify]
shouldVerifyPasses(c) == c.verifyPassesFlag

\* Variant: the argument is stored without the inversion.
verifyOnParsing_notInverted(c, verify) ==
  [c EXCEPT !.disableVerifierOnParsingFlag = verify]
verifyOnParsing(c, verify) == [c EXCEPT !.disableVerifierOnParsingFlag = ~verify]
shouldVerifyOnParsing(c) == ~c.disableVerifierOnParsingFlag

verifyRoundtrip(c, verify) == [c EXCEPT !.verifyRoundtripFlag = verify]
shouldVerifyRoundtrip(c) == c.verifyRoundtripFlag

getReproducerFilename(c) == c.generateReproducerFileFlag

\* Variant: the two exit codes are swapped.
asMainReturnCode_swapped(r) == IF succeeded(r) THEN EXIT_FAILURE ELSE EXIT_SUCCESS
asMainReturnCode(r) == IF succeeded(r) THEN EXIT_SUCCESS ELSE EXIT_FAILURE

----------------------------------------------------------------------------
(* Initial state: a default-constructed config, driver not started *)

NoCall == [op |-> "none", overwrote |-> FALSE, pmIn |-> <<>>, pm |-> <<>>,
           result |-> success, invoked |-> <<>>]

\* The option a setter is for.
Option(op) ==
  CASE op = "setPassPipelineSetupFn" -> "passPipeline"
    [] op = "setPassPipelineParser" -> "passPipeline"
    [] op = "setDebugConfig" -> "debugConfig"
    [] op = "setIrdlFile" -> "irdlFile"
    [] op = "setEmitBytecodeVersion" -> "emitBytecodeVersion"
    [] OTHER -> op

\* Some setter of option o has been called.
WasSet(o) == \E op \in called : Option(op) = o

Init ==
  /\ cfg = MlirOptMainConfig
  /\ called = {}
  /\ lastArg = [ allowUnregisteredDialects |-> FALSE, debugConfig |-> "dbg0",
                 dumpPassPipeline |-> FALSE, emitBytecode |-> FALSE,
                 irdlFile |-> "", emitBytecodeVersion |-> 0,
                 passPipeline |-> NoCallback, listPasses |-> FALSE,
                 runReproducer |-> FALSE, showDialects |-> FALSE,
                 splitInputFile |-> "", outputSplitMarker |-> "",
                 useExplicitModule |-> FALSE, verifyDiagnostics |-> "None",
                 verifyPasses |-> FALSE, verifyOnParsing |-> FALSE,
                 verifyRoundtrip |-> FALSE ]
  /\ lastCall = NoCall
  /\ pc = "config"
  /\ numChunks = 0
  /\ results = <<>>
  /\ hadFailure = FALSE
  /\ ret = "none"
  /\ exitCode = nullopt
  /\ listed = FALSE
  /\ dialectsShown = FALSE
  /\ parsed = 0
  /\ stagesRun = 0

----------------------------------------------------------------------------
(* A client calls a setter: op is the setter's name, arg the argument     *)
(* passed (for the parser setter, the pipeline source it designates), c   *)
(* the object the setter leaves behind.                                   *)

Call(op, arg, c) ==
  /\ pc = "config"
  /\ op \in called \/ Cardinality(called) < MaxOptionsSet
  /\ cfg' = c
  /\ called' = called \cup {op}
  /\ lastArg' = [lastArg EXCEPT ![Option(op)] = arg]
  /\ lastCall' = [NoCall EXCEPT !.op = op,
                   !.overwrote = WasSet(Option(op)) /\ lastArg[Option(op)] # arg]
  /\ UNCHANGED driverVars

CallAllowUnregisteredDialects ==
  \E allow \in BOOLEAN :
    Call("allowUnregisteredDialects", allow,
         allowUnregisteredDialects(cfg, allow))

CallSetDebugConfig ==
  \E config \in DebugConfigs :
    Call("setDebugConfig", config, setDebugConfig(cfg, config))

CallDumpPassPipeline ==
  \E dump \in BOOLEAN :
    Call("dumpPassPipeline", dump, dumpPassPipeline(cfg, dump))

CallEmitBytecode ==
  \E emit \in BOOLEAN :
    Call("emitBytecode", emit, emitBytecode(cfg, emit))

CallSetIrdlFile ==
  \E file \in Files :
    Call("setIrdlFile", file, setIrdlFile(cfg, file))

CallSetEmitBytecodeVersion ==
  \E version \in Versions :
    Call("setEmitBytecodeVersion", version,
         setEmitBytecodeVersion(cfg, version))

CallSetPassPipelineSetupFn ==
  \E callback \in PassPipelineFns \cup {NoCallback} :
    Call("setPassPipelineSetupFn", callback,
         setPassPipelineSetupFn(cfg, callback))

CallSetPassPipelineParser ==
  \E parser \in PassPipelineCLParsers :
    Call("setPassPipelineParser", ParserCallback(parser),
         setPassPipelineParser(cfg, parser))

CallListPasses ==
  \E list \in BOOLEAN :
    Call("listPasses", list, listPasses(cfg, list))

CallRunReproducer ==
  \E enableReproducer \in BOOLEAN :
    Call("runReproducer", enableReproducer,
         runReproducer(cfg, enableReproducer))

CallShowDialects ==
  \E show \in BOOLEAN :
    Call("showDialects", show, showDialects(cfg, show))

CallSplitInputFile ==
  \E splitMarker \in Markers :
    Call("splitInputFile", splitMarker,
         splitInputFile(cfg, splitMarker))

CallOutputSplitMarker ==
  \E splitMarker \in Markers :
    Call("outputSplitMarker", splitMarker,
         setOutputSplitMarker(cfg, splitMarker))

CallUseExplicitModule ==
  \E v \in BOOLEAN :
    Call("useExplicitModule", v, useExplicitModule(cfg, v))

CallVerifyDiagnostics ==
  \E verify \in Level :
    Call("verifyDiagnostics", verify,
         verifyDiagnostics(cfg, verify))

CallVerifyPasses ==
  \E verify \in BOOLEAN :
    Call("verifyPasses", verify, verifyPasses(cfg, verify))

CallVerifyOnParsing ==
  \E verify \in BOOLEAN :
    Call("verifyOnParsing", verify, verifyOnParsing(cfg, verify))

CallVerifyRoundtrip ==
  \E verify \in BOOLEAN :
    Call("verifyRoundtrip", verify, verifyRoundtrip(cfg, verify))

\* A client calls setupPassPipeline(pm) on the config.
CallSetupPassPipeline ==
  /\ pc = "config"
  /\ \E pm \in PassManagers :
       LET r == setupPassPipeline(cfg, pm) IN
         lastCall' = [op |-> "setupPassPipeline", overwrote |-> FALSE,
                      pmIn |-> pm, pm |-> r.pm, result |-> r.result,
                      invoked |-> r.invoked]
  /\ UNCHANGED <<cfg, called, lastArg>>
  /\ UNCHANGED driverVars

----------------------------------------------------------------------------
(* The driver, MlirOptMain(outputStream, buffer, registry, config)         *)

\* Variant: list-passes prints the names and then processes the input anyway.
Run_listsAndContinues ==
  /\ pc = "config"
  /\ lastCall' = [NoCall EXCEPT !.op = "MlirOptMain"]
  /\ dialectsShown' = shouldShowDialects(cfg)
  /\ listed' = shouldListPasses(cfg)
  /\ \E malformed \in BOOLEAN :
       IF malformed
         THEN pc' = "fatal" /\ UNCHANGED numChunks
         ELSE pc' = "running" /\ numChunks' \in 1..MaxChunks
  /\ UNCHANGED <<cfg, called, lastArg, results, hadFailure, ret, exitCode,
                 parsed, stagesRun>>

\* Entry: list-passes short-circuits everything; otherwise the input is
\* split into chunks, unless it is malformed, which is fatal.
Run ==
  /\ pc = "config"
  /\ lastCall' = [NoCall EXCEPT !.op = "MlirOptMain"]
  /\ dialectsShown' = shouldShowDialects(cfg)
  /\ IF shouldListPasses(cfg)
       THEN /\ listed' = TRUE
            /\ ret' = success
            /\ pc' = "done"
            /\ UNCHANGED numChunks
       ELSE /\ UNCHANGED <<listed, ret>>
            /\ \E malformed \in BOOLEAN :
                 IF malformed
                   THEN pc' = "fatal" /\ UNCHANGED numChunks
                   ELSE pc' = "running" /\ numChunks' \in 1..MaxChunks
  /\ UNCHANGED <<cfg, called, lastArg, results, hadFailure, exitCode, parsed,
                 stagesRun>>

\* Stages 4.2-4.6 on one chunk, given how the external parser, verifier,
\* pass stages and round-trip check behave on it.
performActions(c, parseOk, verifyOk, stagesOk, stagesVerifyOk, roundtripOk) ==
  LET setup == setupPassPipeline(c, <<>>) IN
  IF ~parseOk THEN [result |-> failure, stages |-> 0]
  ELSE IF shouldVerifyOnParsing(c) /\ ~verifyOk
    THEN [result |-> failure, stages |-> 0]
  ELSE IF failed(setup.result) THEN [result |-> failure, stages |-> 0]
  ELSE IF ~stagesOk THEN [result |-> failure, stages |-> Len(setup.pm)]
  ELSE IF shouldVerifyPasses(c) /\ ~stagesVerifyOk
    THEN [result |-> failure, stages |-> Len(setup.pm)]
  ELSE IF shouldVerifyRoundtrip(c) /\ ~roundtripOk
    THEN [result |-> failure, stages |-> Len(setup.pm)]
  ELSE [result |-> success, stages |-> Len(setup.pm)]

\* Variant: the diagnostic verifier's verdict is ignored.
processBuffer_ignoresVerifier(c, plain, diag) == plain

\* The chunk's outcome under the active criterion.
processBuffer(c, plain, diag) ==
  IF shouldVerifyDiagnostics(c) THEN diag ELSE plain

ProcessChunk ==
  /\ pc = "running"
  /\ Len(results) < numChunks
  /\ \E parseOk, verifyOk, stagesOk, stagesVerifyOk, roundtripOk \in BOOLEAN,
        diag \in LogicalResult :
       LET r == performActions(cfg, parseOk, verifyOk, stagesOk, stagesVerifyOk,
                               roundtripOk) IN
         /\ results' = Append(results, [plain |-> r.result, diag |-> diag])
         /\ hadFailure' = (hadFailure \/ failed(processBuffer(cfg, r.result, diag)))
         /\ stagesRun' = stagesRun + r.stages
  /\ parsed' = parsed + 1
  /\ UNCHANGED <<cfg, called, lastArg, lastCall, pc, numChunks, ret, exitCode,
                 listed, dialectsShown>>

\* All chunks done: the driver returns the aggregate.
Return ==
  /\ pc = "running"
  /\ Len(results) = numChunks
  /\ ret' = (IF hadFailure THEN failure ELSE success)
  /\ pc' = "done"
  /\ UNCHANGED <<cfg, called, lastArg, lastCall, numChunks, results, hadFailure,
                 exitCode, listed, dialectsShown, parsed, stagesRun>>

\* main returns asMainReturnCode(MlirOptMain(...)).
Exit ==
  /\ pc = "done"
  /\ exitCode = nullopt
  /\ exitCode' = Some(asMainReturnCode(ret))
  /\ UNCHANGED <<cfg, called, lastArg, lastCall, pc, numChunks, results,
                 hadFailure, ret, listed, dialectsShown, parsed, stagesRun>>

Next ==
  \/ CallAllowUnregisteredDialects
  \/ CallSetDebugConfig
  \/ CallDumpPassPipeline
  \/ CallEmitBytecode
  \/ CallSetIrdlFile
  \/ CallSetEmitBytecodeVersion
  \/ CallSetPassPipelineSetupFn
  \/ CallSetPassPipelineParser
  \/ CallListPasses
  \/ CallRunReproducer
  \/ CallShowDialects
  \/ CallSplitInputFile
  \/ CallOutputSplitMarker
  \/ CallUseExplicitModule
  \/ CallVerifyDiagnostics
  \/ CallVerifyPasses
  \/ CallVerifyOnParsing
  \/ CallVerifyRoundtrip
  \/ CallSetupPassPipeline

\* The config object under any use of its public interface.
Spec == Init /\ [][Next]_vars

\* A client sets options the driver reads, then runs the driver and exits.
DriverNext ==
  \/ CallSetPassPipelineSetupFn
  \/ CallSetPassPipelineParser
  \/ CallListPasses
  \/ CallShowDialects
  \/ CallVerifyDiagnostics
  \/ CallVerifyPasses
  \/ CallVerifyOnParsing
  \/ CallVerifyRoundtrip
  \/ Run
  \/ ProcessChunk
  \/ Return
  \/ Exit

DriverSpec == Init /\ [][DriverNext]_vars

----------------------------------------------------------------------------
(* What a client can observe of each option *)

\* options with a fluent setter and a getter
SetGetOptions ==
  { "allowUnregisteredDialects", "debugConfig", "dumpPassPipeline",
    "emitBytecode", "irdlFile", "emitBytecodeVersion", "listPasses",
    "runReproducer", "showDialects", "splitInputFile", "outputSplitMarker",
    "useExplicitModule", "verifyDiagnostics", "verifyPasses",
    "verifyOnParsing", "verifyRoundtrip" }

\* options with a getter and no public setter
GetOnlyOptions ==
  { "diagnosticVerbosityLevel", "elideResourceDataFromBytecode", "showNotes",
    "reproducerFilename" }

AllOptions == SetGetOptions \cup GetOnlyOptions \cup {"passPipeline"}

\* The value option o is observed to have on config c: its getter, and for
\* the pipeline source what setupPassPipeline would run.
Observe(o, c) ==
  CASE o = "allowUnregisteredDialects" -> shouldAllowUnregisteredDialects(c)
    [] o = "debugConfig" -> getDebugConfig(c)
    [] o = "dumpPassPipeline" -> shouldDumpPassPipeline(c)
    [] o = "emitBytecode" -> shouldEmitBytecode(c)
    [] o = "irdlFile" -> getIrdlFile(c)
    [] o = "emitBytecodeVersion" -> bytecodeVersionToEmit(c)
    [] o = "listPasses" -> shouldListPasses(c)
    [] o = "runReproducer" -> shouldRunReproducer(c)
    [] o = "showDialects" -> shouldShowDialects(c)
    [] o = "splitInputFile" -> inputSplitMarker(c)
    [] o = "outputSplitMarker" -> outputSplitMarker(c)
    [] o = "useExplicitModule" -> shouldUseExplicitModule(c)
    [] o = "verifyDiagnostics" -> verifyDiagnosticsLevel(c)
    [] o = "verifyPasses" -> shouldVerifyPasses(c)
    [] o = "verifyOnParsing" -> shouldVerifyOnParsing(c)
    [] o = "verifyRoundtrip" -> shouldVerifyRoundtrip(c)
    [] o = "diagnosticVerbosityLevel" -> getDiagnosticVerbosityLevel(c)
    [] o = "elideResourceDataFromBytecode" -> shouldElideResourceDataFromBytecode(c)
    [] o = "showNotes" -> shouldShowNotes(c)
    [] o = "reproducerFilename" -> getReproducerFilename(c)
    [] o = "passPipeline" -> c.passPipelineCallback

\* The argument of the latest call of o's setter, in the getter's type.
LatestArg(o) ==
  IF o = "emitBytecodeVersion" THEN Some(lastArg[o]) ELSE lastArg[o]

\* No setter has been called on the config.
NoOptionSet == called = {}

----------------------------------------------------------------------------
(* Claims *)

\* C1: on a default-constructed config on which no option has been set,
\* shouldShowNotes() returns true.
C1_ShowNotesDefaultsTrue == NoOptionSet => shouldShowNotes(cfg)

\* The pipeline source most recently set, none if none was set or the
\* latest call passed an empty callback.
LatestSource == IF WasSet("passPipeline") THEN lastArg.passPipeline ELSE NoCallback

\* C2: after any sequence of calls to setPassPipelineSetupFn and
\* setPassPipelineParser, setupPassPipeline runs at most one source, and it
\* is the most recently set one: it appends that source's passes to the pass
\* manager and nothing from an earlier source.
C2_MostRecentSourceOnly ==
  lastCall.op = "setupPassPipeline" =>
    /\ Len(lastCall.invoked) <= 1
    /\ lastCall.invoked =
         (IF LatestSource.kind = "none" THEN <<>> ELSE <<LatestSource.id>>)
    /\ lastCall.pm = lastCall.pmIn \o LatestSource.passes

\* C2 witness: both setters were called, the parser last, and
\* setupPassPipeline ran the parser's pipeline.
C2_Witness ==
  /\ {"setPassPipelineSetupFn", "setPassPipelineParser"} \subseteq called
  /\ lastArg.passPipeline.kind = "parser"
  /\ lastCall.op = "setupPassPipeline"
  /\ lastCall.invoked = <<"p1">>
  /\ lastCall.pm = <<"builtin", "inline">>

\* C3: asMainReturnCode(r) is EXIT_SUCCESS (0) if r succeeded and
\* EXIT_FAILURE (nonzero) if r failed, for every LogicalResult r; so the
\* process exit code is 0 exactly when the driver's result is success.
C3_ExitCodeZeroIffSuccess ==
  /\ \A r \in LogicalResult :
       /\ succeeded(r) => asMainReturnCode(r) = EXIT_SUCCESS
       /\ failed(r) => asMainReturnCode(r) = EXIT_FAILURE
       /\ asMainReturnCode(r) = 0 <=> succeeded(r)
  /\ exitCode # nullopt => (exitCode = Some(0) <=> succeeded(ret))

\* C3 witness: the process has exited with a nonzero code after a failed run.
C3_Witness == exitCode = Some(EXIT_FAILURE) /\ failed(ret) /\ pc = "done"

\* A chunk's outcome under the active criterion.
ChunkSucceeded(e) ==
  IF shouldVerifyDiagnostics(cfg) THEN succeeded(e.diag) ELSE succeeded(e.plain)

\* C4: the result returned by MlirOptMain after processing the chunks is
\* success if and only if every chunk succeeded under the active criterion
\* (the diagnostic verifier's verdict when shouldVerifyDiagnostics(), else
\* parse/pass/verifier success).
C4_SuccessIffEveryChunkSucceeded ==
  (pc = "done" /\ ~listed) =>
    /\ Len(results) = numChunks
    /\ succeeded(ret) <=> \A i \in 1..Len(results) : ChunkSucceeded(results[i])

\* C4 witness: diagnostic verification is on, the first of two chunks failed
\* it although its passes succeeded, the second chunk passed, and the run
\* failed.
C4_Witness ==
  /\ pc = "done"
  /\ shouldVerifyDiagnostics(cfg)
  /\ Len(results) = 2
  /\ failed(results[1].diag) /\ succeeded(results[1].plain)
  /\ succeeded(results[2].diag)
  /\ failed(ret)

\* C5: when shouldListPasses() is true, a started run has printed the pass
\* stage names and terminated successfully, and no chunk was parsed, no pass
\* stage executed and no chunk processed.
C5_ListPassesShortCircuits ==
  (pc # "config" /\ shouldListPasses(cfg)) =>
    /\ pc = "done"
    /\ listed
    /\ succeeded(ret)
    /\ parsed = 0
    /\ stagesRun = 0
    /\ results = <<>>

\* C5 witness: a list-passes run has exited with code 0.
C5_Witness ==
  /\ shouldListPasses(cfg)
  /\ pc = "done"
  /\ listed
  /\ exitCode = Some(EXIT_SUCCESS)

\* C6: on a default-constructed config on which no option has been set,
\* shouldVerifyPasses() and shouldVerifyOnParsing() are true,
\* shouldVerifyRoundtrip() is false, and inputSplitMarker(),
\* outputSplitMarker() and getReproducerFilename() are empty.
C6_Defaults ==
  NoOptionSet =>
    /\ shouldVerifyPasses(cfg)
    /\ shouldVerifyOnParsing(cfg)
    /\ ~shouldVerifyRoundtrip(cfg)
    /\ inputSplitMarker(cfg) = ""
    /\ outputSplitMarker(cfg) = ""
    /\ getReproducerFilename(cfg) = ""

\* C6 witness: a config on which no setter was called is in use, with the
\* verifiers on and the round-trip check off.
C6_Witness ==
  /\ NoOptionSet
  /\ lastCall.op = "setupPassPipeline"
  /\ shouldVerifyPasses(cfg) /\ shouldVerifyOnParsing(cfg)
  /\ ~shouldVerifyRoundtrip(cfg)

\* C7: shouldVerifyDiagnostics() is true iff verifyDiagnosticsLevel() is not
\* None; the level is that of the latest verifyDiagnostics call; with no call
\* the level is None and verification is disabled.
C7_VerifyDiagnosticsLevel ==
  /\ shouldVerifyDiagnostics(cfg) <=> verifyDiagnosticsLevel(cfg) # "None"
  /\ "verifyDiagnostics" \in called =>
       verifyDiagnosticsLevel(cfg) = lastArg.verifyDiagnostics
  /\ "verifyDiagnostics" \notin called =>
       verifyDiagnosticsLevel(cfg) = "None" /\ ~shouldVerifyDiagnostics(cfg)

\* C7 witness: the level was strict, then set to loose; verification is on.
C7_Witness ==
  /\ lastCall.op = "verifyDiagnostics"
  /\ lastCall.overwrote
  /\ lastArg.verifyDiagnostics = "Loose"
  /\ shouldVerifyDiagnostics(cfg)

\* C8: every option with a setter and a getter is last-write-wins: its getter
\* returns the argument of the latest call of its setter, or the default if
\* the setter was never called; in particular shouldVerifyOnParsing() equals
\* the latest argument of verifyOnParsing.
C8_LastWriteWins ==
  /\ \A o \in SetGetOptions :
       Observe(o, cfg) =
         (IF WasSet(o) THEN LatestArg(o) ELSE Observe(o, MlirOptMainConfig))
  /\ "verifyOnParsing" \in called =>
       shouldVerifyOnParsing(cfg) = lastArg.verifyOnParsing

\* C8 witness: verifyOnParsing(false) was followed by verifyOnParsing(true)
\* on a config on which another setter was called too.
C8_Witness ==
  /\ lastCall.op = "verifyOnParsing"
  /\ lastCall.overwrote
  /\ lastArg.verifyOnParsing = TRUE
  /\ shouldVerifyOnParsing(cfg)
  /\ Cardinality(called) = 2

\* C9: setupPassPipeline(pm) with no callback installed returns success and
\* leaves pm unchanged; with a callback installed it invokes that callback
\* exactly once on pm and returns the callback's result.
C9_SetupPassPipeline ==
  lastCall.op = "setupPassPipeline" =>
    LET cb == cfg.passPipelineCallback IN
      IF cb.kind = "none"
        THEN /\ succeeded(lastCall.result)
             /\ lastCall.pm = lastCall.pmIn
             /\ lastCall.invoked = <<>>
        ELSE /\ lastCall.invoked = <<cb.id>>
             /\ lastCall.result = cb.result
             /\ lastCall.pm = lastCall.pmIn \o cb.passes

\* C9 witness: a failing callback was installed and setupPassPipeline
\* reported the failure.
C9_Witness ==
  /\ lastCall.op = "setupPassPipeline"
  /\ cfg.passPipelineCallback.id = "f2"
  /\ lastCall.invoked = <<"f2">>
  /\ failed(lastCall.result)

\* A step changes the observed value of an option only if it is a call of
\* that option's setter.
SetterFrame ==
  \A o \in AllOptions :
    Observe(o, cfg') # Observe(o, cfg) => Option(lastCall'.op) = o

\* C10: each setter changes only its own option; the options without a public
\* setter keep their defaults; the bytecode version is absent until
\* setEmitBytecodeVersion is called and never returns to absent.
C10_SettersChangeOnlyTheirOption ==
  /\ [](\A o \in GetOnlyOptions : Observe(o, cfg) = Observe(o, MlirOptMainConfig))
  /\ []("setEmitBytecodeVersion" \notin called <=> bytecodeVersionToEmit(cfg) = nullopt)
  /\ [][SetterFrame]_vars
  /\ [][bytecodeVersionToEmit(cfg) # nullopt => bytecodeVersionToEmit(cfg') # nullopt]_vars

\* C10 witness: the bytecode version was set and another setter called after
\* it; the version is still present.
C10_Witness ==
  /\ lastCall.op = "emitBytecode"
  /\ "setEmitBytecodeVersion" \in called
  /\ bytecodeVersionToEmit(cfg) = Some(1)
  /\ shouldEmitBytecode(cfg)

====
